---- MODULE Spec2Model ----
(***************************************************************************)
(* Environments, the environment registry and the mark-sweep collector of  *)
(* the rusp interpreter.                                                   *)
(*                                                                         *)
(* An environment is an object with an identity (the shared binding map),  *)
(* a base link fixed at creation and a binding map.  A handle (Env,        *)
(* Rc<Env>) is the identity of the environment it points to.  Identities   *)
(* are never reused, so a weak registry entry to a deallocated environment *)
(* stays distinguishable from every alive environment.                     *)
(*                                                                         *)
(* SpecEnv  : Env::new / define / update / lookup / derive / clone driven  *)
(*            by a host (src/src/env.rs).                                  *)
(* SpecGC   : an Evaluator with its root environment and registry; the     *)
(*            host derives contexts, defines values and closures, drops    *)
(*            handles and calls collect_garbage / count_unreachable_envs   *)
(*            (src/src/eval.rs).                                           *)
(* SpecEval : an Evaluator with the built-in procedures bound in its root  *)
(*            environment; the host hands it one top-level form after the  *)
(*            other (src/src/eval.rs, src/src/builtin/primitive.rs,        *)
(*            src/src/built_in.rs, src/src/list.rs).  The evaluator is a   *)
(*            family of operators over an evaluation state (environments,  *)
(*            registry, call depth) that return the state and a Result.    *)
(* SpecPrim : the same Evaluator over the forms built from cons, eq,       *)
(*            define and set! with closure calls around them.              *)
(* SpecDrop : the same Evaluator, which the host drops at any moment while *)
(*            it keeps the value of the last evaluation (Drop for          *)
(*            Evaluator, src/src/eval.rs).                                 *)
(***************************************************************************)
EXTENDS Integers, Sequences, FiniteSets, TLC

\* ---------------------------------------------------------------- bounds
MaxEnvs == 3        \* environments ever created in one behaviour

\* The host keeps its handles in two local variables, as the unit tests of
\* env.rs do (base and derived, original and cloned).
HostVars == {"a", "b"}
MaxHandles == Cardinality(HostVars)

Ids == 0 .. (MaxEnvs - 1)
Names == {"x", "y"}
NamesGC == {"x"}
NoEnv == -1
Root == 0

\* ---------------------------------------------------------------- values
\* Expr values that can be bound: a number, a closure with its captured
\* environment; Absent is Option::None.
Absent == [k |-> "absent", n |-> 0]
Num(i) == [k |-> "num", n |-> i]
Closure(e) == [k |-> "closure", n |-> e]

EmptyMap == [nm \in Names |-> Absent]

VARIABLES alive, base, vars, is_reachable, all_envs, handles, nextId, origin, last, pre

allvars == <<alive, base, vars, is_reachable, all_envs, handles, nextId, origin, last, pre>>

Range(s) == {s[i] : i \in DOMAIN s}

NoPre == [alive |-> {}, vars |-> [e \in Ids |-> EmptyMap], all_envs |-> <<>>]

Last(op, h, name, val, ret, rval) ==
    [op |-> op, h |-> h, name |-> name, val |-> val, ret |-> ret, rval |-> rval]

\* ------------------------------------------------- reference counting
\* An environment stays allocated while something holds a strong handle to
\* it: a host slot (slot 0 is the Evaluator's context.env in SpecGC), a
\* pinned temporary, the base link of an allocated environment, or a closure
\* bound in an allocated environment.
Held(e, al, vs, bs, hs, pins) ==
    \/ hs[e] > 0
    \/ e \in pins
    \/ \E c \in al : bs[c] = e
    \/ \E c \in al : \E nm \in Names : vs[c][nm] = Closure(e)

RECURSIVE Release(_, _, _, _, _)
Release(al, vs, bs, hs, pins) ==
    LET dead == {e \in al : ~Held(e, al, vs, bs, hs, pins)}
    IN  IF dead = {}
        THEN [alive |-> al, vars |-> vs]
        ELSE Release(al \ dead,
                     [e \in Ids |-> IF e \in dead THEN EmptyMap ELSE vs[e]],
                     bs, hs, pins)

\* ------------------------------------------------------------- Env
\* Env::new
Env_new == [base |-> NoEnv, vars |-> EmptyMap]

\* define that inserts only when the name is not bound yet
define_or_insert(vs, e, name, v) ==
    IF vs[e][name] = Absent THEN [vs EXCEPT ![e][name] = v] ELSE vs

\* Env::define: insert or overwrite in this scope's map
define(vs, e, name, v) == [vs EXCEPT ![e][name] = v]

\* update that keeps walking after a match and overwrites every match
RECURSIVE update_every_match(_, _, _, _, _)
update_every_match(vs, bs, e, name, v) ==
    LET hit == vs[e][name] # Absent
        v1 == IF hit THEN [vs EXCEPT ![e][name] = v] ELSE vs
    IN  IF bs[e] # NoEnv
        THEN LET r == update_every_match(v1, bs, bs[e], name, v)
             IN  [vars |-> r.vars, ret |-> hit \/ r.ret]
        ELSE [vars |-> v1, ret |-> hit]

\* update that inserts into the outermost scope when nothing matches
RECURSIVE update_or_define(_, _, _, _, _)
update_or_define(vs, bs, e, name, v) ==
    IF vs[e][name] # Absent
    THEN [vars |-> [vs EXCEPT ![e][name] = v], ret |-> TRUE]
    ELSE IF bs[e] # NoEnv
         THEN update_or_define(vs, bs, bs[e], name, v)
         ELSE [vars |-> [vs EXCEPT ![e][name] = v], ret |-> FALSE]

\* Env::update: walk outward, overwrite the first match
RECURSIVE update(_, _, _, _, _)
update(vs, bs, e, name, v) ==
    IF vs[e][name] # Absent
    THEN [vars |-> [vs EXCEPT ![e][name] = v], ret |-> TRUE]
    ELSE IF bs[e] # NoEnv
         THEN update(vs, bs, bs[e], name, v)
         ELSE [vars |-> vs, ret |-> FALSE]

\* lookup that asks the base first, so that the outermost binding wins
RECURSIVE lookup_base_first(_, _, _, _)
lookup_base_first(vs, bs, e, name) ==
    LET outer == IF bs[e] # NoEnv THEN lookup_base_first(vs, bs, bs[e], name) ELSE Absent
    IN  IF outer # Absent THEN outer ELSE vs[e][name]

\* Env::lookup: walk outward, return the first match
RECURSIVE lookup(_, _, _, _)
lookup(vs, bs, e, name) ==
    IF vs[e][name] # Absent
    THEN vs[e][name]
    ELSE IF bs[e] # NoEnv
         THEN lookup(vs, bs, bs[e], name)
         ELSE Absent

\* derive that copies the bindings visible from the parent instead of
\* linking to it
derive_by_copy(vs, bs, e) ==
    [base |-> NoEnv, vars |-> [nm \in Names |-> lookup(vs, bs, e, nm)]]

\* Env::derive: a new scope whose base is a clone of this handle
derive(vs, bs, e) == [base |-> e, vars |-> EmptyMap]

\* Clone for Env: the Rc of the binding map is copied, not the map
clone(e) == e

\* ---------------------------------------------------------- host actions
\* handles[e] is the number of strong handles to e held outside the
\* environments themselves (local variables of the host, the context of the
\* Evaluator).
SumHandles(hs, S) == LET RECURSIVE Sum(_)
                         Sum(T) == IF T = {} THEN 0
                                   ELSE LET e == CHOOSE e \in T : TRUE
                                        IN  hs[e] + Sum(T \ {e})
                     IN  Sum(S)

\* origin records which environment a new one was derived from (NoEnv for
\* Env::new); it is history, no operation reads it.
Alloc(env, from, registered) ==
    /\ nextId < MaxEnvs
    /\ origin' = [origin EXCEPT ![nextId] = from]
    /\ LET hs == [handles EXCEPT ![nextId] = 1]
           rel == Release(alive \cup {nextId},
                          [vars EXCEPT ![nextId] = env.vars],
                          [base EXCEPT ![nextId] = env.base], hs, {})
       IN  /\ alive' = rel.alive
           /\ vars' = rel.vars
           /\ handles' = hs
    /\ base' = [base EXCEPT ![nextId] = env.base]
    /\ all_envs' = IF registered THEN Append(all_envs, nextId) ELSE all_envs
    /\ nextId' = nextId + 1
    /\ is_reachable' = [is_reachable EXCEPT ![nextId] = FALSE]

\* let h = Env::new();
New ==
    /\ Alloc(Env_new, NoEnv, FALSE)
    /\ last' = Last("new", nextId, "", Absent, 0, Absent)
    /\ pre' = NoPre

\* let h = e.derive();
Derive(e) ==
    /\ handles[e] > 0
    /\ Alloc(derive(vars, base, e), e, FALSE)
    /\ last' = Last("derive", nextId, "", Absent, 0, Absent)
    /\ pre' = NoPre

\* let h = e.clone();
Clone(e) ==
    /\ handles[e] > 0
    /\ handles' = [handles EXCEPT ![clone(e)] = @ + 1]
    /\ last' = Last("clone", e, "", Absent, 0, Absent)
    /\ pre' = NoPre
    /\ UNCHANGED <<alive, vars, base, is_reachable, all_envs, nextId, origin>>

\* drop(h);
DropHandle(e) ==
    /\ handles[e] > 0
    /\ LET hs == [handles EXCEPT ![e] = @ - 1]
           rel == Release(alive, vars, base, hs, {})
       IN  /\ handles' = hs
           /\ alive' = rel.alive
           /\ vars' = rel.vars
    /\ last' = Last("drop", e, "", Absent, 0, Absent)
    /\ pre' = NoPre
    /\ UNCHANGED <<base, is_reachable, all_envs, nextId, origin>>

\* e.define(name, v); a value that is overwritten is dropped
DefineIn(e, name, v) ==
    /\ handles[e] > 0
    /\ LET rel == Release(alive, define(vars, e, name, v), base, handles, {})
       IN  /\ alive' = rel.alive
           /\ vars' = rel.vars
    /\ pre' = NoPre
    /\ UNCHANGED <<base, is_reachable, all_envs, handles, nextId, origin>>

Define(e, name, v) ==
    /\ DefineIn(e, name, v)
    /\ last' = Last("define", e, name, v, 0, Absent)

\* let ret = e.update(name, v);
Update(e, name, v) ==
    /\ handles[e] > 0
    /\ LET r == update(vars, base, e, name, v)
           rel == Release(alive, r.vars, base, handles, {})
       IN  /\ alive' = rel.alive
           /\ vars' = rel.vars
           /\ last' = Last("update", e, name, v, IF r.ret THEN 1 ELSE 0, Absent)
    /\ pre' = NoPre
    /\ UNCHANGED <<base, is_reachable, all_envs, handles, nextId, origin>>

\* let rval = e.lookup(name);
Lookup(e, name) ==
    /\ handles[e] > 0
    /\ last' = Last("lookup", e, name, Absent, 0, lookup(vars, base, e, name))
    /\ pre' = NoPre
    /\ UNCHANGED <<alive, base, vars, is_reachable, all_envs, handles, nextId, origin>>

\* ------------------------------------------------------------- SpecEnv
NumsEnv == {Num(1), Num(2)}

InitEnv ==
    /\ alive = {}
    /\ base = [e \in Ids |-> NoEnv]
    /\ vars = [e \in Ids |-> EmptyMap]
    /\ is_reachable = [e \in Ids |-> FALSE]
    /\ all_envs = <<>>
    /\ handles = [e \in Ids |-> 0]
    /\ nextId = 0
    /\ origin = [e \in Ids |-> NoEnv]
    /\ last = Last("init", 0, "", Absent, 0, Absent)
    /\ pre = NoPre

NextEnv ==
    \/ SumHandles(handles, Ids) < MaxHandles /\ New
    \/ \E e \in Ids : SumHandles(handles, Ids) < MaxHandles /\ Derive(e)
    \/ \E e \in Ids : SumHandles(handles, Ids) < MaxHandles /\ Clone(e)
    \/ \E e \in Ids : DropHandle(e)
    \/ \E e \in Ids, nm \in Names, v \in NumsEnv : Define(e, nm, v)
    \/ \E e \in Ids, nm \in Names, v \in NumsEnv : Update(e, nm, v)
    \/ \E e \in Ids, nm \in Names : Lookup(e, nm)

SpecEnv == InitEnv /\ [][NextEnv]_allvars

\* -------------------------------------------------------- collector
\* Weak::upgrade: the environment if it is still allocated, else None
upgrade(al, e) == IF e \in al THEN e ELSE NoEnv

\* The first loop of both collector entry points: Env::gc_prepare on every
\* registry entry that still upgrades
gc_prepare(fl, al, reg) ==
    [e \in Ids |-> IF \E i \in DOMAIN reg : upgrade(al, reg[i]) = e THEN FALSE ELSE fl[e]]

\* The environments captured by the closures bound in e
Captured(vs, e) == {c \in Ids : \E nm \in Names : vs[e][nm] = Closure(c)}

\* Env::gc_mark that follows the base links only
RECURSIVE gc_mark_base_only(_, _, _, _)
gc_mark_base_only(fl, vs, bs, e) ==
    IF fl[e]
    THEN fl
    ELSE LET f1 == [fl EXCEPT ![e] = TRUE]
         IN  IF bs[e] # NoEnv THEN gc_mark_base_only(f1, vs, bs, bs[e]) ELSE f1

\* Env::gc_mark: set the mark, then visit the base and the captured
\* environment of every bound closure; an already marked environment is
\* not visited again.
RECURSIVE gc_mark(_, _, _, _)
RECURSIVE gc_mark_all(_, _, _, _)
gc_mark(fl, vs, bs, e) ==
    IF fl[e]
    THEN fl
    ELSE LET f1 == [fl EXCEPT ![e] = TRUE]
             f2 == IF bs[e] # NoEnv THEN gc_mark(f1, vs, bs, bs[e]) ELSE f1
         IN  gc_mark_all(f2, vs, bs, Captured(vs, e))

gc_mark_all(fl, vs, bs, todo) ==
    IF todo = {}
    THEN fl
    ELSE LET c == CHOOSE c \in todo : \A d \in todo : c <= d
         IN  gc_mark_all(gc_mark(fl, vs, bs, c), vs, bs, todo \ {c})

\* Env::gc_sweep: clear the binding map
gc_sweep(vs, e) == [vs EXCEPT ![e] = EmptyMap]

\* sweep_filter, except that an entry that no longer upgrades is kept
RECURSIVE sweep_filter_keeps_dead(_, _, _, _, _, _, _, _)
sweep_filter_keeps_dead(reg, i, al, vs, bs, fl, hs, acc) ==
    IF i > Len(reg)
    THEN [alive |-> al, vars |-> vs, all_envs |-> acc.kept, reclaimed |-> acc.reclaimed]
    ELSE LET e == reg[i]
         IN  IF upgrade(al, e) # NoEnv /\ ~fl[e]
             THEN LET r1 == Release(al, gc_sweep(vs, e), bs, hs, {e})
                      r2 == Release(r1.alive, r1.vars, bs, hs, {})
                  IN  sweep_filter_keeps_dead(reg, i + 1, r2.alive, r2.vars, bs, fl, hs,
                                   [kept |-> acc.kept, reclaimed |-> acc.reclaimed + 1])
             ELSE sweep_filter_keeps_dead(reg, i + 1, al, vs, bs, fl, hs,
                                   [kept |-> Append(acc.kept, e), reclaimed |-> acc.reclaimed])

\* The filter of collect_garbage over the registry, entry by entry: an
\* entry that no longer upgrades is dropped; an unmarked environment is
\* swept and dropped; a marked one is kept.  The upgraded handle pins the
\* environment until the filter closure returns.
RECURSIVE sweep_filter(_, _, _, _, _, _, _, _)
sweep_filter(reg, i, al, vs, bs, fl, hs, acc) ==
    IF i > Len(reg)
    THEN [alive |-> al, vars |-> vs, all_envs |-> acc.kept, reclaimed |-> acc.reclaimed]
    ELSE LET e == reg[i]
         IN  IF upgrade(al, e) = NoEnv
             THEN sweep_filter(reg, i + 1, al, vs, bs, fl, hs, acc)
             ELSE IF ~fl[e]
                  THEN LET r1 == Release(al, gc_sweep(vs, e), bs, hs, {e})
                           r2 == Release(r1.alive, r1.vars, bs, hs, {})
                       IN  sweep_filter(reg, i + 1, r2.alive, r2.vars, bs, fl, hs,
                                        [kept |-> acc.kept, reclaimed |-> acc.reclaimed + 1])
                  ELSE sweep_filter(reg, i + 1, al, vs, bs, fl, hs,
                                    [kept |-> Append(acc.kept, e), reclaimed |-> acc.reclaimed])

\* collect_garbage without the prepare loop: marks of earlier passes stay
collect_garbage_no_prepare(reg, al, vs, bs, fl, hs) ==
    LET f2 == gc_mark(fl, vs, bs, Root)
        sw == sweep_filter(reg, 1, al, vs, bs, f2, hs, [kept |-> <<>>, reclaimed |-> 0])
    IN  [alive |-> sw.alive, vars |-> sw.vars, all_envs |-> sw.all_envs,
         is_reachable |-> [e \in Ids |-> e \in sw.alive /\ f2[e]],
         reclaimed |-> sw.reclaimed]

\* Evaluator::collect_garbage
collect_garbage(reg, al, vs, bs, fl, hs) ==
    LET f1 == gc_prepare(fl, al, reg)
        f2 == gc_mark(f1, vs, bs, Root)
        sw == sweep_filter(reg, 1, al, vs, bs, f2, hs, [kept |-> <<>>, reclaimed |-> 0])
    IN  [alive |-> sw.alive, vars |-> sw.vars, all_envs |-> sw.all_envs,
         is_reachable |-> [e \in Ids |-> e \in sw.alive /\ f2[e]],
         reclaimed |-> sw.reclaimed]

\* The fold of count_unreachable_envs over the registry
RECURSIVE count_fold(_, _, _, _)
count_fold(reg, i, al, fl) ==
    IF i > Len(reg)
    THEN 0
    ELSE (IF upgrade(al, reg[i]) # NoEnv /\ ~fl[reg[i]] THEN 1 ELSE 0)
         + count_fold(reg, i + 1, al, fl)

\* Evaluator::count_unreachable_envs
count_unreachable_envs(reg, al, vs, bs, fl) ==
    LET f1 == gc_prepare(fl, al, reg)
        f2 == gc_mark(f1, vs, bs, Root)
    IN  [is_reachable |-> f2, ret |-> count_fold(reg, 1, al, f2)]

\* What last holds after a step of the host that returns nothing
Host == Last("host", 0, "", Absent, 0, Absent)

Snapshot == [alive |-> alive, vars |-> vars, all_envs |-> all_envs]

\* derive_from that allocates the environment without a registry entry
DeriveFrom_unregistered(e) ==
    /\ handles[e] > 0
    /\ Alloc(derive(vars, base, e), e, FALSE)
    /\ last' = Host
    /\ pre' = NoPre

\* let ctx = EvalContext::derive_from(&ctx_e);
DeriveFrom(e) ==
    /\ handles[e] > 0
    /\ Alloc(derive(vars, base, e), e, TRUE)
    /\ last' = Host
    /\ pre' = NoPre

\* ctx_e.env.define(name, v);
DefineValue(e, name, v) ==
    /\ DefineIn(e, name, v)
    /\ last' = Host

\* drop(ctx_e);
DropContext(e) ==
    /\ handles[e] > 0
    /\ LET hs == [handles EXCEPT ![e] = @ - 1]
           rel == Release(alive, vars, base, hs, {})
       IN  /\ handles' = hs
           /\ alive' = rel.alive
           /\ vars' = rel.vars
    /\ last' = Host
    /\ pre' = NoPre
    /\ UNCHANGED <<base, is_reachable, all_envs, nextId, origin>>

\* evaluator.collect_garbage();
CollectGarbage ==
    /\ LET r == collect_garbage(all_envs, alive, vars, base, is_reachable, handles)
       IN  /\ alive' = r.alive
           /\ vars' = r.vars
           /\ all_envs' = r.all_envs
           /\ is_reachable' = r.is_reachable
           /\ last' = Last("collect_garbage", 0, "", Absent, r.reclaimed, Absent)
    /\ pre' = Snapshot
    /\ UNCHANGED <<base, handles, nextId, origin>>

\* let ret = evaluator.count_unreachable_envs();
CountUnreachable ==
    /\ LET r == count_unreachable_envs(all_envs, alive, vars, base, is_reachable)
       IN  /\ is_reachable' = r.is_reachable
           /\ last' = Last("count_unreachable_envs", 0, "", Absent, r.ret, Absent)
    /\ pre' = Snapshot
    /\ UNCHANGED <<alive, base, vars, all_envs, handles, nextId, origin>>

\* ------------------------------------------------------------- SpecGC
\* The values the host binds: a number, or the closure that lambda builds
\* in the context behind one of its handles.  A closure that captures the
\* root adds no edge the collector can follow further and no handle the
\* root needs, so for the collector it is one more value like the number.
ValuesGC == {Num(1)} \cup {Closure(c) : c \in {e \in Ids \ {Root} : handles[e] > 0}}

\* Evaluator::new: the root environment, registered, held by the context
InitGC ==
    /\ alive = {Root}
    /\ base = [e \in Ids |-> NoEnv]
    /\ vars = [e \in Ids |-> EmptyMap]
    /\ is_reachable = [e \in Ids |-> FALSE]
    /\ all_envs = <<Root>>
    /\ handles = [e \in Ids |-> IF e = Root THEN 1 ELSE 0]
    /\ nextId = 1
    /\ origin = [e \in Ids |-> NoEnv]
    /\ last = Last("init", 0, "", Absent, 0, Absent)
    /\ pre = NoPre

NextGC ==
    \/ \E e \in Ids : SumHandles(handles, Ids \ {Root}) < MaxHandles /\ DeriveFrom(e)
    \/ \E e \in Ids \ {Root} : DropContext(e)
    \/ \E e \in Ids, nm \in NamesGC : \E v \in ValuesGC : DefineValue(e, nm, v)
    \/ CollectGarbage
    \/ CountUnreachable

SpecGC == InitGC /\ [][NextGC]_allvars

\* ------------------------------------------------------- reachability
\* The environments reachable from the root: the root, the base of a
\* reachable environment, the environment captured by a closure bound in a
\* reachable environment.
RECURSIVE ReachFrom(_, _, _)
ReachFrom(R, vs, bs) ==
    LET N == R \cup ({bs[e] : e \in R} \ {NoEnv}) \cup UNION {Captured(vs, e) : e \in R}
    IN  IF N = R THEN R ELSE ReachFrom(N, vs, bs)

Reachable(vs, bs) == ReachFrom({Root}, vs, bs)

\* The environments that were alive and registered when the last collector
\* call started
PreRegistered == pre.alive \cap Range(pre.all_envs)

PreUnreachable == PreRegistered \ Reachable(pre.vars, base)

\* C1: after collect_garbage every environment that was alive, registered
\* and unreachable from the root has an empty binding map and no registry
\* entry.
C1_SweepClearsUnreachable ==
    last.op = "collect_garbage" =>
        \A e \in PreUnreachable : vars[e] = EmptyMap /\ e \notin Range(all_envs)

C1_Witness ==
    /\ last.op = "collect_garbage"
    /\ \E e \in PreUnreachable : pre.vars[e] # EmptyMap /\ e \in alive

\* C2: collect_garbage keeps the bindings and the registry entry of every
\* environment reachable from the root.
C2_ReachableKept ==
    last.op = "collect_garbage" =>
        \A e \in Reachable(pre.vars, base) :
            /\ vars[e] = pre.vars[e]
            /\ e \in Range(pre.all_envs) => e \in Range(all_envs)

\* C3 (as claimed): one collect_garbage reclaims every environment that was
\* unreachable from the root, and count_unreachable_envs called right after
\* it returns 0.
C3_CollectThenCountZero ==
    last.op = "collect_garbage" =>
        /\ \A e \in PreUnreachable : vars[e] = EmptyMap /\ e \notin Range(all_envs)
        /\ count_unreachable_envs(all_envs, alive, vars, base, is_reachable).ret = 0

\* C4 (as claimed): count_unreachable_envs returns the number of alive
\* registered environments unreachable from the root and changes neither
\* bindings nor registry.
C4_CountExact ==
    last.op = "count_unreachable_envs" =>
        /\ last.ret = Cardinality(PreUnreachable)
        /\ vars = pre.vars
        /\ all_envs = pre.all_envs
        /\ alive = pre.alive

\* The registry entries whose environment was already deallocated when the
\* last collector call started
PreDeadEntries == Range(pre.all_envs) \ pre.alive

\* C5: the registry keeps no environment alive; collect_garbage drops the
\* entries of deallocated environments from the registry and touches
\* nothing of them; count_unreachable_envs counts only entries that are
\* alive (and unmarked), never a deallocated one.
C5_DeadEntriesSkipped ==
    /\ \A e \in Range(all_envs) :
          (handles[e] = 0 /\ \A c \in alive : base[c] # e /\ e \notin Captured(vars, c))
              => e \notin alive
    /\ last.op = "collect_garbage" =>
          /\ \A e \in PreDeadEntries : e \notin Range(all_envs) /\ e \notin alive
          /\ Range(all_envs) \subseteq alive
    /\ last.op = "count_unreachable_envs" =>
          /\ last.ret = Cardinality({e \in Range(all_envs) \cap alive : ~is_reachable[e]})
          /\ last.ret <= Cardinality(PreRegistered)
          /\ all_envs = pre.all_envs

C5_Witness ==
    /\ last.op = "collect_garbage"
    /\ PreDeadEntries # {}
    /\ last.ret > 0

\* ------------------------------------------------------- scope chains
\* The scopes S, parent(S), ... as the host derived them
RECURSIVE Chain(_, _)
Chain(par, e) == IF par[e] = NoEnv THEN <<e>> ELSE <<e>> \o Chain(par, par[e])

\* The positions on the chain of e whose scope binds name
Binders(vs, par, e, name) ==
    {i \in DOMAIN Chain(par, e) : vs[Chain(par, e)[i]][name] # Absent}

Min(S) == CHOOSE i \in S : \A j \in S : i <= j

\* The nearest scope on the chain of e that binds name (when one does)
Nearest(vs, par, e, name) == Chain(par, e)[Min(Binders(vs, par, e, name))]

Ancestors(par, e) == Range(Chain(par, e)) \ {e}

\* C6: define(name, v) on S makes lookup(name) from S return v, also when
\* an ancestor binds name, and changes neither an ancestor's bindings nor
\* any other binding of S.
C6_DefineLocal ==
    [][last'.op = "define" =>
        LET S == last'.h
            nm == last'.name
        IN  /\ lookup(vars', base', S, nm) = last'.val
            /\ vars'[S][nm] = last'.val
            /\ \A a \in Ancestors(origin, S) : vars'[a] = vars[a]
            /\ \A n \in Names \ {nm} : vars'[S][n] = vars[S][n]]_allvars

C6_Witness ==
    /\ last.op = "define"
    /\ origin[last.h] # NoEnv
    /\ vars[origin[last.h]][last.name] \notin {Absent, last.val}
    /\ \E n \in Names \ {last.name} : vars[last.h][n] # Absent
    /\ lookup(vars, base, last.h, last.name) = last.val

\* C7: update(name, v) on S with name bound on the chain of S returns true
\* and replaces the value in the nearest binding scope only; nothing else
\* changes and no binding is created.
C7_UpdateNearest ==
    [][(last'.op = "update" /\ Binders(vars, origin, last'.h, last'.name) # {}) =>
        /\ last'.ret = 1
        /\ vars' = [vars EXCEPT ![Nearest(vars, origin, last'.h, last'.name)][last'.name]
                                    = last'.val]]_allvars

C7_Witness ==
    /\ last.op = "update"
    /\ last.ret = 1
    /\ Len(Chain(origin, last.h)) = 3
    /\ vars[last.h][last.name] = Absent
    /\ vars[Chain(origin, last.h)[2]][last.name] = last.val
    /\ vars[Chain(origin, last.h)[3]][last.name] \notin {Absent, last.val}

\* C8: update(name, v) on S with name bound nowhere on the chain of S
\* returns false and changes no binding.
C8_UpdateUnbound ==
    [][(last'.op = "update" /\ Binders(vars, origin, last'.h, last'.name) = {}) =>
        /\ last'.ret = 0
        /\ vars' = vars]_allvars

C8_Witness ==
    /\ last.op = "update"
    /\ last.ret = 0
    /\ origin[last.h] # NoEnv
    /\ \A e \in Range(Chain(origin, last.h)) : vars[e][last.name] = Absent
    /\ \E n \in Names : vars[origin[last.h]][n] # Absent

\* C9: lookup(name) from S returns the value of the nearest binding on the
\* chain of S, None when there is none, and changes no binding; so a name
\* bound only in a derived scope is not found from its parent.
C9_LookupNearest ==
    [][last'.op = "lookup" =>
        LET S == last'.h
            nm == last'.name
        IN  /\ last'.rval = IF Binders(vars, origin, S, nm) = {} THEN Absent
                            ELSE vars[Nearest(vars, origin, S, nm)][nm]
            /\ (\A a \in Range(Chain(origin, S)) : vars[a][nm] = Absent)
                  => last'.rval = Absent
            /\ vars[S][nm] # Absent => last'.rval = vars[S][nm]
            /\ vars' = vars]_allvars

C9_Witness ==
    /\ last.op = "lookup"
    /\ origin[last.h] # NoEnv
    /\ vars[last.h][last.name] # Absent
    /\ vars[origin[last.h]][last.name] \notin {Absent, vars[last.h][last.name]}
    /\ last.rval = vars[last.h][last.name]

\* The environments derived from t (t included) from which no nearer scope
\* hides t's binding of name
SeesBindingOf(vs, t, name) ==
    {d \in alive : LET ch == Chain(origin, d)
                   IN  \E j \in DOMAIN ch :
                          /\ ch[j] = t
                          /\ \A i \in 1 .. (j - 1) : vs[ch[i]][name] = Absent}

\* C10: a define or update made through a handle is seen by lookup through
\* every handle to the same environment and through every environment
\* derived from it that does not shadow the name.
C10_HandlesAlias ==
    [][/\ last'.op = "define" =>
              \A d \in SeesBindingOf(vars', last'.h, last'.name) :
                  handles'[d] > 0 => lookup(vars', base', clone(d), last'.name) = last'.val
       /\ (last'.op = "update" /\ last'.ret = 1) =>
              \A d \in SeesBindingOf(vars', Nearest(vars, origin, last'.h, last'.name),
                                     last'.name) :
                  handles'[d] > 0 => lookup(vars', base', clone(d), last'.name) = last'.val
      ]_allvars

\* The parent is written through the host's handle and read through the
\* clone of that handle that derive stored in the child.
C10_Witness ==
    /\ last.op = "define"
    /\ handles[last.h] > 0
    /\ \E d \in alive : /\ d # last.h
                        /\ origin[d] = last.h
                        /\ handles[d] > 0
                        /\ vars[d][last.name] = Absent
                        /\ lookup(vars, base, d, last.name) = last.val

\* ------------------------------------------------------------ spans
\* Option<Span>: NoSpan is None; a span is a pair of positions begin <= end
\* (begin >= 1).
NoSpan == [begin |-> 0, end |-> 0]
Span_new(b, e) == [begin |-> b, end |-> e]

\* ------------------------------------------------------ expressions
\* Expr as the evaluator matches on it.  A List is a proper list and is
\* kept as the sequence of its cars: Cons{car, cdr} is <<car>> \o cdr and
\* List::Nil is << >>.
Expr_Sym(name, span) == [k |-> "sym", name |-> name, span |-> span]
Expr_Num(n, span) == [k |-> "num", n |-> n, span |-> span]
Expr_List(items, span) == [k |-> "list", items |-> items, span |-> span]
Expr_Proc(proc) == [k |-> "proc", proc |-> proc, span |-> NoSpan]
TailCall(proc, args, context) ==
    [k |-> "tailcall", proc |-> proc, args |-> args, context |-> context]

NIL == Expr_List(<<>>, NoSpan)
intern(name) == Expr_Sym(name, NoSpan)

\* Proc and its three variants; name is "" for an anonymous closure
Proc_Native(name) == [kind |-> "native", name |-> name]
Proc_Closure(name, formal_args, body, outer_env) ==
    [kind |-> "closure", name |-> name, formal_args |-> formal_args,
     body |-> body, outer_env |-> outer_env]
Proc_Macro(name, formal_args, body) ==
    [kind |-> "macro", name |-> name, formal_args |-> formal_args, body |-> body]

\* Expr::span: the span the expression carries (a TailCall carries none)
Expr_span(expr) == IF expr.k = "tailcall" THEN NoSpan ELSE expr.span

\* Expr::is_truthy: everything but the empty list
is_truthy(expr) == ~(expr.k = "list" /\ expr.items = <<>>)

\* PartialEq for Expr: structural, diagnostics (spans) aside
RECURSIVE Unspan(_)
Unspan(expr) ==
    CASE expr.k = "list" ->
            Expr_List([i \in DOMAIN expr.items |-> Unspan(expr.items[i])], NoSpan)
      [] expr.k \in {"sym", "num"} -> [expr EXCEPT !.span = NoSpan]
      [] OTHER -> expr

Expr_eq(a, b) == Unspan(a) = Unspan(b)

\* From<bool> for Expr: the symbol #t, or NIL
Expr_from_bool(b) == IF b THEN intern("#t") ELSE NIL

\* List::span with a first element that decides alone
List_span_first_only(items) ==
    IF items = <<>> THEN NoSpan
    ELSE IF Expr_span(Head(items)) = NoSpan THEN NoSpan
    ELSE Span_new(Expr_span(Head(items)).begin, Expr_span(items[Len(items)]).end)

\* List::span: (iter.next(), iter.last()) is (first, last of the rest)
List_span(items) ==
    IF items = <<>>
    THEN NoSpan
    ELSE IF Len(items) = 1
         THEN Expr_span(items[1])
         ELSE LET first_span == Expr_span(items[1])
                  last_span == Expr_span(items[Len(items)])
              IN  IF first_span # NoSpan /\ last_span # NoSpan
                  THEN Span_new(first_span.begin, last_span.end)
                  ELSE NoSpan

\* --------------------------------------------------- evaluation state
\* The symbols of the programs and of the procedures the root environment
\* is loaded with.
Builtins == {"cond", "cons", "define", "defmacro", "eq", "lambda", "set!",
             "unquote", "unquote-splicing", "+", "list"}
Symbols == Builtins \cup {"x", "z", "a", "f", "m", "i", "n", "loop"}

EmptyScope == [nm \in Symbols |-> Absent]

\* EvalError{message, span}; a message is its format string and the
\* expression displayed in it.
Message(fmt, arg) == [fmt |-> fmt, arg |-> arg]
NoErr == [message |-> Message("", NIL), span |-> NoSpan]

\* EvalResult, together with the state the evaluation leaves behind
Ok(s, v) == [s |-> s, ok |-> TRUE, v |-> v, err |-> NoErr]
Err(s, message, span) ==
    [s |-> s, ok |-> FALSE, v |-> NIL, err |-> [message |-> message, span |-> span]]

\* What an evaluation did, in order: symbol lookups, invocations and
\* returns, deferred tail calls, derived environments, macro expansions (the debug
\* call_stack of EvalContext, extended).
Event(ev, name, env) == [ev |-> ev, name |-> name, env |-> env]
Trace(s, ev, name, env) == [s EXCEPT !.log = Append(@, Event(ev, name, env))]

\* Env::derive_from: a new registered environment whose base is e
derive_from(s, e) ==
    LET id == s.nextId
    IN  [s EXCEPT !.vars = [i \in 0 .. id |-> IF i = id THEN EmptyScope ELSE s.vars[i]],
                  !.base = [i \in 0 .. id |-> IF i = id THEN e ELSE s.base[i]],
                  !.nextId = id + 1,
                  !.all_envs = Append(@, id),
                  !.log = Append(@, Event("derive", "", id))]

\* EvalContext::push_call
push_call(s, context, proc) ==
    [s EXCEPT !.call_depth = @ + 1,
              !.max_depth = IF s.call_depth + 1 > @ THEN s.call_depth + 1 ELSE @,
              !.log = Append(@, Event("invoke", proc.name, context))]

\* EvalContext::pop_call
pop_call(s) ==
    [s EXCEPT !.call_depth = @ - 1,
              !.log = Append(@, Event("return", "", NoEnv))]

\* EvalContext::is_in_proc
is_in_proc(s) == s.call_depth > 0

\* make_syntax_error
make_syntax_error(proc_name, args) ==
    Message("Ill-formed syntax: {}", Expr_List(<<intern(proc_name)>> \o args, NoSpan))

\* ----------------------------------------------------------- evaluator
QUOTE == "quote"
QUASIQUOTE == "quasiquote"

RECURSIVE eval_internal(_, _, _, _)
RECURSIVE eval_s_expr(_, _, _, _)
RECURSIVE trampoline(_)
RECURSIVE invoke(_, _, _, _)
RECURSIVE invoke_closure(_, _, _, _)
RECURSIVE invoke_macro(_, _, _, _)
RECURSIVE native_call(_, _, _, _)
RECURSIVE eval_args(_, _, _, _)
RECURSIVE eval_body(_, _, _)
RECURSIVE eval_each(_, _, _, _)
RECURSIVE quasiquote(_, _, _)
RECURSIVE quasiquote_loop(_, _, _, _)
RECURSIVE cond_loop(_, _, _, _, _)
RECURSIVE cond_loop_last_match(_, _, _, _, _)

\* pub fn eval
eval(s, expr, context) == eval_internal(s, expr, context, FALSE)

\* pub fn eval_tail
eval_tail(s, expr, context) == eval_internal(s, expr, context, TRUE)

\* The symbol arm that answers NIL for an unbound symbol
eval_sym_nil(s, expr, context) ==
    LET found == lookup(s.vars, s.base, context, expr.name)
        s1 == Trace(s, "lookup", expr.name, context)
    IN  IF found # Absent THEN Ok(s1, found) ELSE Ok(s1, NIL)

\* The Expr::Sym arm of eval_internal
eval_sym(s, expr, context) ==
    LET found == lookup(s.vars, s.base, context, expr.name)
        s1 == Trace(s, "lookup", expr.name, context)
    IN  IF found # Absent
        THEN Ok(s1, found)
        ELSE Err(s1, Message("Undefined symbol: {}", intern(expr.name)), expr.span)

\* Back-fill that prefers the span of the whole expression
span_backfill_expr_first(result, cdr, expr) ==
    IF ~result.ok /\ result.err.span = NoSpan
    THEN LET span == IF Expr_span(expr) # NoSpan THEN Expr_span(expr) ELSE List_span(cdr)
         IN  Err(result.s, result.err.message, span)
    ELSE result

\* The match on result that ends the list arm of eval_internal
span_backfill(result, cdr, expr) ==
    IF ~result.ok /\ result.err.span = NoSpan
    THEN LET span == IF List_span(cdr) # NoSpan THEN List_span(cdr) ELSE Expr_span(expr)
         IN  Err(result.s, result.err.message, span)
    ELSE result

\* quote that evaluates its operand
quote_evaluated(s, args, context) ==
    IF args # <<>>
    THEN eval(s, Head(args), context)
    ELSE Err(s, make_syntax_error("quote", args), NoSpan)

\* quote
quote(s, args, context) ==
    IF args # <<>>
    THEN Ok(s, Head(args))
    ELSE Err(s, make_syntax_error("quote", args), NoSpan)

eval_internal(s, expr, context, is_tail) ==
    CASE expr.k = "sym" -> eval_sym(s, expr, context)
      [] expr.k = "list" /\ expr.items # <<>> ->
            LET car == Head(expr.items)
                cdr == Tail(expr.items)
                result ==
                    IF car.k = "sym" /\ car.name = QUOTE
                    THEN quote(s, cdr, context)
                    ELSE IF car.k = "sym" /\ car.name = QUASIQUOTE
                         THEN quasiquote(s, cdr, context)
                         ELSE eval_s_expr(s, expr.items, context, is_tail)
            IN  span_backfill(result, cdr, expr)
      [] OTHER -> Ok(s, expr)

\* The loop of eval_s_expr invoking in the context of the Evaluator, not
\* in the one the TailCall carries
trampoline_root_context(res) ==
    IF res.ok /\ res.v.k = "tailcall"
    THEN trampoline(invoke(res.s, res.v.proc, res.v.args, Root))
    ELSE res

\* The while-let loop of eval_s_expr
trampoline(res) ==
    IF res.ok /\ res.v.k = "tailcall"
    THEN trampoline(invoke(res.s, res.v.proc, res.v.args, res.v.context))
    ELSE res

\* eval_s_expr that returns what the first invoke returns
eval_s_expr_no_loop(s, s_expr, context, is_tail) ==
    LET head == eval(s, Head(s_expr), context)
    IN  IF ~head.ok
        THEN head
        ELSE IF head.v.k = "proc"
             THEN LET proc == head.v.proc
                      args == Tail(s_expr)
                  IN  IF is_tail /\ is_in_proc(head.s)
                      THEN Ok(Trace(head.s, "tailcall", proc.name, context),
                              TailCall(proc, args, context))
                      ELSE invoke(head.s, proc, args, context)
             ELSE Err(head.s,
                      Message("{} does not evaluate to a callable.", Head(s_expr)),
                      Expr_span(Head(s_expr)))

\* eval_s_expr that defers every call in tail position, whatever the call
\* depth
eval_s_expr_tail_only(s, s_expr, context, is_tail) ==
    LET head == eval(s, Head(s_expr), context)
    IN  IF ~head.ok
        THEN head
        ELSE IF head.v.k = "proc"
             THEN LET proc == head.v.proc
                      args == Tail(s_expr)
                  IN  IF is_tail
                      THEN Ok(Trace(head.s, "tailcall", proc.name, context),
                              TailCall(proc, args, context))
                      ELSE trampoline(invoke(head.s, proc, args, context))
             ELSE Err(head.s,
                      Message("{} does not evaluate to a callable.", Head(s_expr)),
                      Expr_span(Head(s_expr)))

\* eval_s_expr: the head must evaluate to a procedure; a call in tail
\* position inside a procedure is handed back as a TailCall, any other call
\* is invoked and its TailCalls are run to the end
eval_s_expr(s, s_expr, context, is_tail) ==
    LET head == eval(s, Head(s_expr), context)
    IN  IF ~head.ok
        THEN head
        ELSE IF head.v.k = "proc"
             THEN LET proc == head.v.proc
                      args == Tail(s_expr)
                  IN  IF is_tail /\ is_in_proc(head.s)
                      THEN Ok(Trace(head.s, "tailcall", proc.name, context),
                              TailCall(proc, args, context))
                      ELSE trampoline(invoke(head.s, proc, args, context))
             ELSE Err(head.s,
                      Message("{} does not evaluate to a callable.", Head(s_expr)),
                      Expr_span(Head(s_expr)))

\* ---------------------------------------------------------- procedures
\* The arguments of a call, evaluated left to right in the caller's
\* context; the first error ends the evaluation.
eval_args(s, args, context, acc) ==
    IF args = <<>>
    THEN Ok(s, Expr_List(acc, NoSpan))
    ELSE LET r == eval(s, Head(args), context)
         IN  IF r.ok THEN eval_args(r.s, Tail(args), context, Append(acc, r.v)) ELSE r

\* Positional binding of formal arguments in scope e
RECURSIVE bind(_, _, _, _)
bind(vs, e, formal_args, values) ==
    IF formal_args = <<>>
    THEN vs
    ELSE bind(define(vs, e, Head(formal_args), Head(values)), e,
              Tail(formal_args), Tail(values))

\* The body of a closure: all but the last expression for effect, the
\* last in tail position
eval_body(s, body, context) ==
    IF body = <<>>
    THEN Ok(s, NIL)
    ELSE IF Len(body) = 1
         THEN eval_tail(s, Head(body), context)
         ELSE LET r == eval(s, Head(body), context)
              IN  IF r.ok THEN eval_body(r.s, Tail(body), context) ELSE r

\* Expressions evaluated in sequence, the value of the last one kept
eval_each(s, exprs, context, value) ==
    IF exprs = <<>>
    THEN Ok(s, value)
    ELSE LET r == eval(s, Head(exprs), context)
         IN  IF r.ok THEN eval_each(r.s, Tail(exprs), context, r.v) ELSE r

arity_error(proc) == Message("{}: wrong number of arguments", intern(proc.name))

\* Closure call that derives the scope of the call from the caller's
\* environment (dynamic scoping)
invoke_closure_from_caller(s, proc, args, context) ==
    LET ev == eval_args(s, args, context, <<>>)
    IN  IF ~ev.ok
        THEN ev
        ELSE IF Len(ev.v.items) # Len(proc.formal_args)
             THEN Err(ev.s, arity_error(proc), NoSpan)
             ELSE LET child == ev.s.nextId
                      s1 == derive_from(ev.s, context)
                      s2 == [s1 EXCEPT !.vars = bind(@, child, proc.formal_args, ev.v.items)]
                  IN  eval_body(s2, proc.body, child)

\* Proc::invoke, Closure
invoke_closure(s, proc, args, context) ==
    LET ev == eval_args(s, args, context, <<>>)
    IN  IF ~ev.ok
        THEN ev
        ELSE IF Len(ev.v.items) # Len(proc.formal_args)
             THEN Err(ev.s, arity_error(proc), NoSpan)
             ELSE LET child == ev.s.nextId
                      s1 == derive_from(ev.s, proc.outer_env)
                      s2 == [s1 EXCEPT !.vars = bind(@, child, proc.formal_args, ev.v.items)]
                  IN  eval_body(s2, proc.body, child)

\* Macro call that evaluates its arguments before binding them
invoke_macro_args_evaluated(s, proc, args, context) ==
    LET ev == eval_args(s, args, context, <<>>)
    IN  IF ~ev.ok
        THEN ev
        ELSE IF Len(args) # Len(proc.formal_args)
             THEN Err(ev.s, arity_error(proc), NoSpan)
             ELSE LET scope == ev.s.nextId
                      s1 == derive_from(ev.s, context)
                      s2 == [s1 EXCEPT !.vars = bind(@, scope, proc.formal_args, ev.v.items)]
                      expanded == eval_each(s2, proc.body, scope, NIL)
                  IN  IF ~expanded.ok
                      THEN expanded
                      ELSE eval(Trace(expanded.s, "expand", proc.name, context),
                                expanded.v, context)

\* Proc::invoke, Macro
invoke_macro(s, proc, args, context) ==
    IF Len(args) # Len(proc.formal_args)
    THEN Err(s, arity_error(proc), NoSpan)
    ELSE LET scope == s.nextId
             s1 == derive_from(s, context)
             s2 == [s1 EXCEPT !.vars = bind(@, scope, proc.formal_args, args)]
             expanded == eval_each(s2, proc.body, scope, NIL)
         IN  IF ~expanded.ok
             THEN expanded
             ELSE eval(Trace(expanded.s, "expand", proc.name, context),
                       expanded.v, context)

\* Proc::invoke that leaves through the error without lowering the call
\* depth
invoke_no_pop_on_error(s, proc, args, context) ==
    LET s1 == push_call(s, context, proc)
        r == CASE proc.kind = "native" -> native_call(proc.name, s1, args, context)
               [] proc.kind = "closure" -> invoke_closure(s1, proc, args, context)
               [] proc.kind = "macro" -> invoke_macro(s1, proc, args, context)
    IN  IF r.ok THEN [r EXCEPT !.s = pop_call(@)] ELSE r

\* Proc::invoke: the call depth is raised around the call
invoke(s, proc, args, context) ==
    LET s1 == push_call(s, context, proc)
        r == CASE proc.kind = "native" -> native_call(proc.name, s1, args, context)
               [] proc.kind = "closure" -> invoke_closure(s1, proc, args, context)
               [] proc.kind = "macro" -> invoke_macro(s1, proc, args, context)
    IN  [r EXCEPT !.s = pop_call(@)]

\* ---------------------------------------------------------- primitives
\* get_exact_2_args: the error when args does not hold exactly two
get_exact_2_args(proc_name, args) ==
    IF Len(args) < 2
    THEN [ok |-> FALSE, message |-> Message("{}: requres two arguments", intern(proc_name))]
    ELSE IF Len(args) > 2
         THEN [ok |-> FALSE,
               message |-> Message("{}: takes only two arguments", intern(proc_name))]
         ELSE [ok |-> TRUE, message |-> Message("", NIL)]

\* make_formal_args: the names, or the first item that is not a symbol
RECURSIVE make_formal_args(_)
make_formal_args(list) ==
    IF list = <<>>
    THEN [ok |-> TRUE, names |-> <<>>, message |-> Message("", NIL)]
    ELSE IF Head(list).k # "sym"
         THEN [ok |-> FALSE, names |-> <<>>,
               message |-> Message("{} is not a symbol.", Head(list))]
         ELSE LET rest == make_formal_args(Tail(list))
              IN  IF rest.ok
                  THEN [rest EXCEPT !.names = <<Head(list).name>> \o @]
                  ELSE rest

\* cond that returns the body of the last clause whose condition holds
cond_loop_last_match(proc_name, s, iter, env, args) ==
    IF iter = <<>>
    THEN Ok(s, NIL)
    ELSE LET clause == Head(iter)
         IN  IF clause.k = "list" /\ clause.items # <<>>
             THEN LET c == eval(s, Head(clause.items), env)
                  IN  IF ~c.ok
                      THEN c
                      ELSE IF is_truthy(c.v)
                           THEN IF Len(clause.items) >= 2
                                THEN LET later == cond_loop_last_match(proc_name, c.s,
                                                      Tail(iter), env, args)
                                     IN  IF later.ok /\ later.v = NIL
                                         THEN eval(later.s, clause.items[2], env)
                                         ELSE later
                                ELSE Err(c.s, make_syntax_error(proc_name, args), NoSpan)
                           ELSE cond_loop_last_match(proc_name, c.s, Tail(iter), env, args)
             ELSE Err(s, make_syntax_error(proc_name, args), NoSpan)

\* The loop of cond over the clauses left in iter
cond_loop(proc_name, s, iter, env, args) ==
    IF iter = <<>>
    THEN Ok(s, NIL)
    ELSE LET clause == Head(iter)
         IN  IF clause.k = "list" /\ clause.items # <<>>
             THEN LET c == eval(s, Head(clause.items), env)
                  IN  IF ~c.ok
                      THEN c
                      ELSE IF is_truthy(c.v)
                           THEN IF Len(clause.items) >= 2
                                THEN eval(c.s, clause.items[2], env)
                                ELSE Err(c.s, make_syntax_error(proc_name, args), NoSpan)
                           ELSE cond_loop(proc_name, c.s, Tail(iter), env, args)
             ELSE Err(s, make_syntax_error(proc_name, args), NoSpan)

\* primitive::cond
primitive_cond(proc_name, s, args, env) == cond_loop(proc_name, s, args, env, args)

\* primitive::define that binds the name before it evaluates the expression
primitive_define_binds_first(proc_name, s, args, env) ==
    IF args = <<>>
    THEN Err(s, make_syntax_error(proc_name, args), NoSpan)
    ELSE LET first == Head(args)
         IN  CASE first.k = "sym" ->
                    IF Len(args) >= 2
                    THEN LET r == eval(s, args[2], env)
                         IN  IF r.ok
                             THEN Ok([r.s EXCEPT !.vars = define(@, env, first.name, r.v)], NIL)
                             ELSE [r EXCEPT !.s.vars = define(@, env, first.name, NIL)]
                    ELSE Err(s, Message("{}: define expects a expression after symbol",
                                        intern(proc_name)), NoSpan)
               [] first.k = "list" /\ first.items # <<>> ->
                    IF Head(first.items).k # "sym"
                    THEN Err(s, Message("{}: expects a list of symbols", intern(proc_name)),
                             NoSpan)
                    ELSE LET name == Head(first.items).name
                             fa == make_formal_args(Tail(first.items))
                         IN  IF ~fa.ok
                             THEN Err(s, fa.message, NoSpan)
                             ELSE Ok([s EXCEPT !.vars = define(@, env, name,
                                        Expr_Proc(Proc_Closure(name, fa.names, Tail(args), env)))],
                                     NIL)
               [] OTHER -> Err(s, make_syntax_error(proc_name, args), NoSpan)

\* primitive::define
primitive_define(proc_name, s, args, env) ==
    IF args = <<>>
    THEN Err(s, make_syntax_error(proc_name, args), NoSpan)
    ELSE LET first == Head(args)
         IN  CASE first.k = "sym" ->
                    IF Len(args) >= 2
                    THEN LET r == eval(s, args[2], env)
                         IN  IF r.ok
                             THEN Ok([r.s EXCEPT !.vars = define(@, env, first.name, r.v)], NIL)
                             ELSE r
                    ELSE Err(s, Message("{}: define expects a expression after symbol",
                                        intern(proc_name)), NoSpan)
               [] first.k = "list" /\ first.items # <<>> ->
                    IF Head(first.items).k # "sym"
                    THEN Err(s, Message("{}: expects a list of symbols", intern(proc_name)),
                             NoSpan)
                    ELSE LET name == Head(first.items).name
                             fa == make_formal_args(Tail(first.items))
                         IN  IF ~fa.ok
                             THEN Err(s, fa.message, NoSpan)
                             ELSE Ok([s EXCEPT !.vars = define(@, env, name,
                                        Expr_Proc(Proc_Closure(name, fa.names, Tail(args), env)))],
                                     NIL)
               [] OTHER -> Err(s, make_syntax_error(proc_name, args), NoSpan)

\* primitive::defmacro
primitive_defmacro(proc_name, s, args, env) ==
    IF args = <<>>
    THEN Err(s, make_syntax_error(proc_name, args), NoSpan)
    ELSE LET first == Head(args)
         IN  CASE first.k = "sym" ->
                    IF Len(args) >= 2 /\ args[2].k = "list"
                    THEN LET fa == make_formal_args(args[2].items)
                         IN  IF ~fa.ok
                             THEN Err(s, fa.message, NoSpan)
                             ELSE Ok([s EXCEPT !.vars = define(@, env, first.name,
                                        Expr_Proc(Proc_Macro(first.name, fa.names,
                                                             Tail(Tail(args)))))],
                                     NIL)
                    ELSE Err(s, make_syntax_error(proc_name, args), NoSpan)
               [] first.k = "list" /\ first.items # <<>> ->
                    IF Head(first.items).k # "sym"
                    THEN Err(s, make_syntax_error(proc_name, args), NoSpan)
                    ELSE LET name == Head(first.items).name
                             fa == make_formal_args(Tail(first.items))
                         IN  IF ~fa.ok
                             THEN Err(s, fa.message, NoSpan)
                             ELSE Ok([s EXCEPT !.vars = define(@, env, name,
                                        Expr_Proc(Proc_Macro(name, fa.names, Tail(args))))],
                                     NIL)
               [] OTHER -> Err(s, make_syntax_error(proc_name, args), NoSpan)

\* primitive::cons
primitive_cons(proc_name, s, args, env) ==
    LET two == get_exact_2_args(proc_name, args)
    IN  IF ~two.ok
        THEN Err(s, two.message, NoSpan)
        ELSE LET car == eval(s, args[1], env)
             IN  IF ~car.ok
                 THEN car
                 ELSE LET cdr == eval(car.s, args[2], env)
                      IN  IF ~cdr.ok
                          THEN cdr
                          ELSE IF cdr.v.k # "list"
                               THEN Err(cdr.s,
                                        Message(proc_name \o ": {} does not evaluate to a list.",
                                                args[2]),
                                        NoSpan)
                               ELSE Ok(cdr.s, Expr_List(<<car.v>> \o cdr.v.items, NoSpan))

\* primitive::eq with the operands evaluated right to left
primitive_eq_right_first(proc_name, s, args, env) ==
    LET two == get_exact_2_args(proc_name, args)
    IN  IF ~two.ok
        THEN Err(s, two.message, NoSpan)
        ELSE LET right == eval(s, args[2], env)
             IN  IF ~right.ok
                 THEN right
                 ELSE LET left == eval(right.s, args[1], env)
                      IN  IF ~left.ok
                          THEN left
                          ELSE Ok(left.s, Expr_from_bool(Expr_eq(left.v, right.v)))

\* primitive::eq
primitive_eq(proc_name, s, args, env) ==
    LET two == get_exact_2_args(proc_name, args)
    IN  IF ~two.ok
        THEN Err(s, two.message, NoSpan)
        ELSE LET left == eval(s, args[1], env)
             IN  IF ~left.ok
                 THEN left
                 ELSE LET right == eval(left.s, args[2], env)
                      IN  IF ~right.ok
                          THEN right
                          ELSE Ok(right.s, Expr_from_bool(Expr_eq(left.v, right.v)))

\* primitive::lambda
primitive_lambda(proc_name, s, args, env) ==
    IF args = <<>> \/ Head(args).k # "list"
    THEN Err(s, make_syntax_error(proc_name, args), NoSpan)
    ELSE LET fa == make_formal_args(Head(args).items)
         IN  IF ~fa.ok
             THEN Err(s, fa.message, NoSpan)
             ELSE Ok(s, Expr_Proc(Proc_Closure("", fa.names, Tail(args), env)))

\* primitive::set that binds the name at the outermost scope when nothing
\* binds it
primitive_set_defines(proc_name, s, args, env) ==
    LET two == get_exact_2_args(proc_name, args)
    IN  IF ~two.ok
        THEN Err(s, two.message, NoSpan)
        ELSE IF args[1].k # "sym"
             THEN Err(s, Message("", NIL), NoSpan)
             ELSE LET value == eval(s, args[2], env)
                  IN  IF ~value.ok
                      THEN value
                      ELSE Ok([value.s EXCEPT !.vars =
                                  update_or_define(value.s.vars, value.s.base, env,
                                                   args[1].name, value.v).vars],
                              NIL)

\* primitive::set (registered as set!): the result of Env::update is
\* dropped
primitive_set(proc_name, s, args, env) ==
    LET two == get_exact_2_args(proc_name, args)
    IN  IF ~two.ok
        THEN Err(s, two.message, NoSpan)
        ELSE IF args[1].k # "sym"
             THEN Err(s, Message("", NIL), NoSpan)
             ELSE LET value == eval(s, args[2], env)
                  IN  IF ~value.ok
                      THEN value
                      ELSE Ok([value.s EXCEPT !.vars =
                                  update(value.s.vars, value.s.base, env,
                                         args[1].name, value.v).vars],
                              NIL)

\* built_in::unquote (and unquote_splicing, which calls it): the list of
\* the values of the arguments
unquote(s, args, env) == eval_args(s, args, env, <<>>)

\* The native + of the numeric built-ins: the sum of the values of the
\* arguments, which must be numbers
RECURSIVE num_add(_, _, _, _, _)
num_add(proc_name, s, args, env, acc) ==
    IF args = <<>>
    THEN Ok(s, Expr_Num(acc, NoSpan))
    ELSE LET r == eval(s, Head(args), env)
         IN  IF ~r.ok
             THEN r
             ELSE IF r.v.k # "num"
                  THEN Err(r.s, Message("{}: not a number", Head(args)), NoSpan)
                  ELSE num_add(proc_name, r.s, Tail(args), env, acc + r.v.n)

\* The function pointer of Proc::Native, by the name it is registered under
native_call(name, s, args, context) ==
    CASE name = "cond" -> primitive_cond(name, s, args, context)
      [] name = "cons" -> primitive_cons(name, s, args, context)
      [] name = "set!" -> primitive_set(name, s, args, context)
      [] name = "define" -> primitive_define(name, s, args, context)
      [] name = "defmacro" -> primitive_defmacro(name, s, args, context)
      [] name = "eq" -> primitive_eq(name, s, args, context)
      [] name = "lambda" -> primitive_lambda(name, s, args, context)
      [] name \in {"unquote", "unquote-splicing"} -> unquote(s, args, context)
      [] name = "+" -> num_add(name, s, args, context, 0)
      [] name = "list" -> eval_args(s, args, context, <<>>)

\* ---------------------------------------------------------- quasiquote
quasiquote_loop(s, iter, env, exprs) ==
    IF iter = <<>>
    THEN Ok(s, Expr_List(exprs, NoSpan))
    ELSE LET expr == Head(iter)
             rest == Tail(iter)
         IN  IF expr.k # "list"
             THEN quasiquote_loop(s, rest, env, Append(exprs, expr))
             ELSE IF expr.items = <<>>
                  THEN quasiquote_loop(s, rest, env, Append(exprs, NIL))
                  ELSE LET car == Head(expr.items)
                           nested == quasiquote(s, expr.items, env)
                           value == eval(s, expr, env)
                       IN  CASE car.k = "sym" /\ car.name = "quote" ->
                                  quasiquote_loop(s, rest, env, Append(exprs, expr))
                             [] car.k = "sym" /\ car.name = "unquote" ->
                                  IF value.ok
                                  THEN quasiquote_loop(value.s, rest, env,
                                                       Append(exprs, value.v))
                                  ELSE value
                             [] car.k = "sym" /\ car.name = "unquote-splicing" ->
                                  IF ~value.ok
                                  THEN value
                                  ELSE IF value.v.k = "list" /\ value.v.items # <<>>
                                       THEN quasiquote_loop(value.s, rest, env,
                                                            exprs \o value.v.items)
                                       ELSE quasiquote_loop(value.s, rest, env,
                                                            Append(exprs, value.v))
                             [] OTHER ->
                                  IF nested.ok
                                  THEN quasiquote_loop(nested.s, rest, env,
                                                       Append(exprs, nested.v))
                                  ELSE nested

\* built_in::quasiquote
quasiquote(s, args, env) == quasiquote_loop(s, args, env, <<>>)

\* ------------------------------------------------------------ programs
\* Expressions as the parser (or a test) hands them to Evaluator::eval;
\* an expression built without a position carries no span.
Sy(name) == intern(name)
Nu(n) == Expr_Num(n, NoSpan)
Li(items) == Expr_List(items, NoSpan)
At(expr, b, e) == [expr EXCEPT !.span = Span_new(b, e)]

MaxCount == 3       \* iterations of the counting loop

\* (define x 1), (define (f a) (+ a x)), (defmacro (m a) a),
\* (define (loop i n) (cond ((eq i n) i) (1 (loop (+ i 1) n))))
DefineX == Li(<<Sy("define"), Sy("x"), Nu(1)>>)
DefineF == Li(<<Sy("define"), Li(<<Sy("f"), Sy("a")>>), Li(<<Sy("+"), Sy("a"), Sy("x")>>)>>)
DefmacroM == Li(<<Sy("defmacro"), Li(<<Sy("m"), Sy("a")>>), Sy("a")>>)
DefineLoop ==
    Li(<<Sy("define"), Li(<<Sy("loop"), Sy("i"), Sy("n")>>),
         Li(<<Sy("cond"),
              Li(<<Li(<<Sy("eq"), Sy("i"), Sy("n")>>), Sy("i")>>),
              Li(<<Nu(1), Li(<<Sy("loop"), Li(<<Sy("+"), Sy("i"), Nu(1)>>), Sy("n")>>)>>)>>)>>)
DefForms == {DefineX, DefineF, DefmacroM, DefineLoop}

\* (loop 0 n)
LoopCall(n) == Li(<<Sy("loop"), Nu(0), Nu(n)>>)
LoopCalls == {LoopCall(n) : n \in 0 .. MaxCount}

\* (f 1), ((lambda (x) (f x)) 5), ((lambda (a) x) 2) with x at 7-8
CallF == Li(<<Sy("f"), Nu(1)>>)
CallLambda == Li(<<Li(<<Sy("lambda"), Li(<<Sy("x")>>), Li(<<Sy("f"), Sy("x")>>)>>), Nu(5)>>)
CallFree == Li(<<Li(<<Sy("lambda"), Li(<<Sy("a")>>), At(Sy("x"), 7, 8)>>), Nu(2)>>)

\* (m x), (m (quote x)), (m a)
CallM == Li(<<Sy("m"), Sy("x")>>)
CallMQ == Li(<<Sy("m"), Li(<<Sy("quote"), Sy("x")>>)>>)
CallMA == Li(<<Sy("m"), Sy("a")>>)
CallForms == {CallF, CallLambda, CallFree, CallM, CallMQ, CallMA}

\* x at 1-2, z at 3-4, z without a position
SymForms == {At(Sy("x"), 1, 2), At(Sy("z"), 3, 4), Sy("z")}

\* (quote z), (quote (define x 2)), (quote ((f z) (1 (2))))
QuoteNested ==
    Li(<<Sy("quote"), Li(<<Li(<<Sy("f"), Sy("z")>>), Li(<<Nu(1), Li(<<Nu(2)>>)>>)>>)>>)
QuoteForms ==
    {Li(<<Sy("quote"), Sy("z")>>),
     Li(<<Sy("quote"), Li(<<Sy("define"), Sy("x"), Nu(2)>>)>>),
     QuoteNested}

\* (quasiquote (1 (unquote (+ 1 1)) 3)) and
\* (quasiquote (1 (unquote-splicing (list 2 3)) 4))
QuasiUnquote ==
    Li(<<Sy("quasiquote"),
         Li(<<Nu(1), Li(<<Sy("unquote"), Li(<<Sy("+"), Nu(1), Nu(1)>>)>>), Nu(3)>>)>>)
QuasiSplice ==
    Li(<<Sy("quasiquote"),
         Li(<<Nu(1), Li(<<Sy("unquote-splicing"), Li(<<Sy("list"), Nu(2), Nu(3)>>)>>),
              Nu(4)>>)>>)
QuasiForms == {QuasiUnquote, QuasiSplice}

\* cond over clauses whose conditions and bodies are atoms:
\* (cond (() 1) (x 2) (z 3)), (cond (() 1) (2 x) (z 3)), (cond (() 1) (())),
\* (cond (() 2) (1)), (cond (() 1) (x z)), (cond)
CondSecond ==
    Li(<<Sy("cond"), Li(<<NIL, Nu(1)>>), Li(<<Sy("x"), Nu(2)>>), Li(<<Sy("z"), Nu(3)>>)>>)
CondNoBody == Li(<<Sy("cond"), Li(<<NIL, Nu(2)>>), Li(<<Nu(1)>>)>>)
CondForms ==
    {CondSecond,
     Li(<<Sy("cond"), Li(<<NIL, Nu(1)>>), Li(<<Nu(2), Sy("x")>>), Li(<<Sy("z"), Nu(3)>>)>>),
     Li(<<Sy("cond"), Li(<<NIL, Nu(1)>>), Li(<<NIL>>)>>),
     CondNoBody,
     Li(<<Sy("cond"), Li(<<NIL, Nu(1)>>), Li(<<Sy("x"), Sy("z")>>)>>),
     Li(<<Sy("cond")>>)}

\* Calls that fail, with and without positions; the argument lists of the
\* four-element ones are the lists of test_list_span.
\* (eq 1)
ErrNoSpans == Li(<<Sy("eq"), Nu(1)>>)
\* (eq 1) at 1-7, 1 at 5-6
ErrArgSpan == At(Li(<<Sy("eq"), At(Nu(1), 5, 6)>>), 1, 7)
\* (eq) at 1-4
ErrNoArgs == At(Li(<<Sy("eq")>>), 1, 4)
\* (eq 1 2 3) at 1-11 with 1 at 5-6, 2 at 7-8, 3 at 9-10, all or all but one
ErrAllArgs == At(Li(<<Sy("eq"), At(Nu(1), 5, 6), At(Nu(2), 7, 8), At(Nu(3), 9, 10)>>), 1, 11)
ErrFirstArgBare == At(Li(<<Sy("eq"), Nu(1), At(Nu(2), 7, 8), At(Nu(3), 9, 10)>>), 1, 11)
ErrMiddleArgBare == At(Li(<<Sy("eq"), At(Nu(1), 5, 6), Nu(2), At(Nu(3), 9, 10)>>), 1, 11)
ErrLastArgBare == At(Li(<<Sy("eq"), At(Nu(1), 5, 6), At(Nu(2), 7, 8), Nu(3)>>), 1, 11)
\* (eq z 1) at 1-9 with z at 5-6, 1 at 7-8
ErrSymSpan == At(Li(<<Sy("eq"), At(Sy("z"), 5, 6), At(Nu(1), 7, 8)>>), 1, 9)
\* (eq (eq 1) 2) at 1-14 with (eq 1) at 5-11, 1 at 9-10, 2 at 12-13
ErrNested ==
    At(Li(<<Sy("eq"), At(Li(<<Sy("eq"), At(Nu(1), 9, 10)>>), 5, 11), At(Nu(2), 12, 13)>>),
       1, 14)
\* (1 2) at 1-6 with 1 at 2-3 or nowhere, 2 at 4-5
ErrNotCallable == At(Li(<<At(Nu(1), 2, 3), At(Nu(2), 4, 5)>>), 1, 6)
ErrNotCallableBare == At(Li(<<Nu(1), At(Nu(2), 4, 5)>>), 1, 6)
ErrForms == {ErrNoSpans, ErrArgSpan, ErrNoArgs, ErrAllArgs, ErrFirstArgBare,
             ErrMiddleArgBare, ErrLastArgBare, ErrSymSpan, ErrNested, ErrNotCallable,
             ErrNotCallableBare}

\* (eq l r) and (cons l r) with l and r among x and z; z is bound nowhere
OperandForms ==
    {Li(<<Sy(p), Sy(l), Sy(r)>>) : p \in {"eq", "cons"}, l \in {"x", "z"}, r \in {"x", "z"}}

\* (define x z) and (define x (eq 1)): the expression fails
DefineUnbound == Li(<<Sy("define"), Sy("x"), Sy("z")>>)
DefineArity == Li(<<Sy("define"), Sy("x"), Li(<<Sy("eq"), Nu(1)>>)>>)

\* (set! x 2), ((lambda (x) (set! x 2) x) 5), ((lambda (a) (set! x a)) 2)
SetRoot == Li(<<Sy("set!"), Sy("x"), Nu(2)>>)
SetLocal ==
    Li(<<Li(<<Sy("lambda"), Li(<<Sy("x")>>),
              Li(<<Sy("set!"), Sy("x"), Nu(2)>>), Sy("x")>>), Nu(5)>>)
SetOuter ==
    Li(<<Li(<<Sy("lambda"), Li(<<Sy("a")>>), Li(<<Sy("set!"), Sy("x"), Sy("a")>>)>>), Nu(2)>>)
SetForms == {SetRoot, SetLocal, SetOuter}

Forms == DefForms \cup LoopCalls \cup CallForms \cup SymForms \cup QuoteForms
             \cup QuasiForms \cup CondForms \cup ErrForms

\* The programs over the primitives with several operands, define and set!,
\* with closure calls around them
PrimForms == {DefineX, DefineF, DefineLoop, DefineUnbound, DefineArity}
                 \cup {CallF, CallLambda, CallFree} \cup LoopCalls
                 \cup OperandForms \cup SetForms

\* ------------------------------------------------------------ SpecEval
MaxEvalEnvs == 5    \* environments ever created by one Evaluator

\* The environments a value holds a handle to
RECURSIVE EnvsIn(_)
EnvsIn(v) ==
    CASE v.k = "list" -> UNION {EnvsIn(v.items[i]) : i \in DOMAIN v.items}
      [] v.k = "proc" ->
            IF v.proc.kind = "closure"
            THEN {v.proc.outer_env}
                     \cup UNION {EnvsIn(v.proc.body[i]) : i \in DOMAIN v.proc.body}
            ELSE {}
      [] v.k = "tailcall" -> {v.context}
      [] OTHER -> {}

\* Reference counting over expression values: e is held by the context of
\* the Evaluator or the result in the host's hands (roots), by a base link
\* or by a value bound in an allocated environment.
HeldEval(e, al, vs, bs, roots) ==
    \/ e \in roots
    \/ \E c \in al : bs[c] = e
    \/ \E c \in al : \E nm \in Symbols : e \in EnvsIn(vs[c][nm])

RECURSIVE ReleaseEval(_, _, _, _)
ReleaseEval(al, vs, bs, roots) ==
    LET dead == {e \in al : ~HeldEval(e, al, vs, bs, roots)}
    IN  IF dead = {}
        THEN [alive |-> al, vars |-> vs]
        ELSE ReleaseEval(al \ dead,
                         [e \in DOMAIN vs |-> IF e \in dead THEN EmptyScope ELSE vs[e]],
                         bs, roots)

\* The state an evaluation starts from: the environments, the registry and
\* the call depth shared by every context
EvalState ==
    [vars |-> vars, base |-> base, nextId |-> nextId, all_envs |-> all_envs,
     call_depth |-> last.call_depth, max_depth |-> 0, log |-> <<>>]

PreState ==
    [vars |-> pre.vars, base |-> pre.base, nextId |-> pre.nextId,
     all_envs |-> pre.all_envs, call_depth |-> 0, max_depth |-> 0, log |-> <<>>]

\* let result = evaluator.eval(&expr); the previous result is dropped
Evaluator_eval(expr) ==
    LET r == eval(EvalState, expr, Root)
        created == 0 .. (r.s.nextId - 1)
        roots == {Root} \cup (IF r.ok THEN EnvsIn(r.v) ELSE {})
        rel == ReleaseEval((alive \cup created) \ (0 .. (nextId - 1) \ alive),
                           r.s.vars, r.s.base, roots)
    IN  /\ r.s.nextId <= MaxEvalEnvs
        /\ vars' = rel.vars
        /\ alive' = rel.alive
        /\ base' = r.s.base
        /\ nextId' = r.s.nextId
        /\ all_envs' = r.s.all_envs
        /\ handles' = [e \in created |-> IF e = Root THEN 1 ELSE 0]
        /\ is_reachable' = [e \in created |-> FALSE]
        /\ origin' = r.s.base
        /\ last' = [op |-> "eval", expr |-> expr, ok |-> r.ok, v |-> r.v, err |-> r.err,
                    log |-> r.s.log, max_depth |-> r.s.max_depth,
                    call_depth |-> r.s.call_depth]
        /\ pre' = [alive |-> alive, vars |-> vars, all_envs |-> all_envs,
                   base |-> base, nextId |-> nextId]

\* Evaluator::with_builtin: the registered root environment, loaded with
\* the native procedures
InitEval ==
    /\ alive = {Root}
    /\ base = [e \in {Root} |-> NoEnv]
    /\ vars = [e \in {Root} |->
                  [nm \in Symbols |-> IF nm \in Builtins
                                      THEN Expr_Proc(Proc_Native(nm))
                                      ELSE Absent]]
    /\ is_reachable = [e \in {Root} |-> FALSE]
    /\ all_envs = <<Root>>
    /\ handles = [e \in {Root} |-> 1]
    /\ nextId = 1
    /\ origin = [e \in {Root} |-> NoEnv]
    /\ last = [op |-> "init", expr |-> NIL, ok |-> TRUE, v |-> NIL, err |-> NoErr,
               log |-> <<>>, max_depth |-> 0, call_depth |-> 0]
    /\ pre = [alive |-> {}, vars |-> <<>>, all_envs |-> <<>>, base |-> <<>>, nextId |-> 0]

NextEval == \E expr \in Forms : Evaluator_eval(expr)

SpecEval == InitEval /\ [][NextEval]_allvars

NextPrim == \E expr \in PrimForms : Evaluator_eval(expr)

SpecPrim == InitEval /\ [][NextPrim]_allvars

\* ------------------------------------------------------------ SpecDrop
\* ((lambda (a) (lambda (b) a)) 1): the value is a closure over the
\* environment of the call
MakeClosure ==
    Li(<<Li(<<Sy("lambda"), Li(<<Sy("a")>>),
              Li(<<Sy("lambda"), Li(<<Sy("b")>>), Sy("a")>>)>>), Nu(1)>>)

\* The programs whose values and bindings hold environments, or none
DropForms == {DefineX, DefineF, CallF, CallFree, SetRoot, SetOuter, MakeClosure}

\* Drop for Evaluator, the loop: gc_sweep on every registry entry that
\* upgrades
Evaluator_drop(vs, al, envs) ==
    [e \in DOMAIN vs |-> IF e \in al /\ e \in Range(envs) THEN EmptyScope ELSE vs[e]]

\* The host drops the Evaluator and keeps the value of the last
\* evaluation; the state is the one the assertion of Drop reads.
DropEvaluator ==
    LET swept == Evaluator_drop(vars, alive, all_envs)
        roots == {Root} \cup (IF last.ok THEN EnvsIn(last.v) ELSE {})
        rel == ReleaseEval(alive, swept, base, roots)
    IN  /\ last.op # "drop"
        /\ vars' = rel.vars
        /\ alive' = rel.alive
        /\ last' = [last EXCEPT !.op = "drop"]
        /\ pre' = [alive |-> alive, vars |-> vars, all_envs |-> all_envs,
                   base |-> base, nextId |-> nextId]
        /\ UNCHANGED <<base, is_reachable, all_envs, handles, nextId, origin>>

NextDrop ==
    \/ last.op # "drop" /\ \E expr \in DropForms : Evaluator_eval(expr)
    \/ DropEvaluator

SpecDrop == InitEval /\ [][NextDrop]_allvars

\* ------------------------------------------------- evaluator properties
Evaluated == last.op = "eval"

\* The bindings of the environments that were allocated before the last
\* evaluation and still are
Untouched == \A e \in alive \cap pre.alive : vars[e] = pre.vars[e]

LookupEvents(log) == SelectSeq(log, LAMBDA ev : ev.ev = "lookup")

RootValue(name) == lookup(pre.vars, pre.base, Root, name)

Undefined(name) == Message("Undefined symbol: {}", intern(name))

RECURSIVE HasTailCall(_)
HasTailCall(v) ==
    CASE v.k = "tailcall" -> TRUE
      [] v.k = "list" -> \E i \in DOMAIN v.items : HasTailCall(v.items[i])
      [] OTHER -> FALSE

\* C11: Evaluator::eval (and eval, which it calls) never hands a TailCall
\* to its caller for an expression that holds none, and leaves none bound
\* in an environment: the markers made on the way are consumed by the loop
\* of eval_s_expr.
C11_NoTailCallEscapes ==
    Evaluated =>
        /\ ~HasTailCall(last.v)
        /\ \A e \in DOMAIN vars : \A nm \in Symbols : ~HasTailCall(vars[e][nm])
        /\ last.call_depth = 0

C11_Witness ==
    /\ Evaluated
    /\ last.ok
    /\ \E i \in DOMAIN last.log : last.log[i].ev = "tailcall"
    /\ ~HasTailCall(last.v)

\* C12 (as claimed): a call of the counting loop, whose recursive call is
\* the last thing the closure does, returns n and never has more invoke
\* frames active at once than the loop with one iteration has.
C12_TailLoopBounded ==
    (Evaluated /\ last.expr \in LoopCalls /\ RootValue("loop") # Absent) =>
        /\ last.ok
        /\ last.v.k = "num"
        /\ last.v.n = last.expr.items[3].n
        /\ last.max_depth <= eval(PreState, LoopCall(1), Root).s.max_depth

\* What the list arm of eval_internal gets back before it looks at the
\* span of an error
RawResult ==
    LET car == Head(last.expr.items)
        cdr == Tail(last.expr.items)
    IN  IF car.k = "sym" /\ car.name = QUOTE
        THEN quote(PreState, cdr, Root)
        ELSE IF car.k = "sym" /\ car.name = QUASIQUOTE
             THEN quasiquote(PreState, cdr, Root)
             ELSE eval_s_expr(PreState, last.expr.items, Root, FALSE)

\* The spans the failing calls must report, read off their positions (an
\* argument list has a span when its first and its last element have one)
ExpectedSpan(expr) ==
    CASE expr = ErrNoSpans -> NoSpan
      [] expr = ErrArgSpan -> Span_new(5, 6)
      [] expr = ErrNoArgs -> Span_new(1, 4)
      [] expr = ErrAllArgs -> Span_new(5, 10)
      [] expr = ErrFirstArgBare -> Span_new(1, 11)
      [] expr = ErrMiddleArgBare -> Span_new(5, 10)
      [] expr = ErrLastArgBare -> Span_new(1, 11)
      [] expr = ErrSymSpan -> Span_new(5, 6)
      [] expr = ErrNested -> Span_new(9, 10)
      [] expr = ErrNotCallable -> Span_new(2, 3)
      [] expr = ErrNotCallableBare -> Span_new(4, 5)

\* C13: an error of a non-empty list expression that comes without a span
\* leaves the evaluator with the same message and the span of the argument
\* list if that list has one, else the span of the expression; an error
\* that has a span leaves unchanged; an error never becomes a value.
C13_SpanBackfill ==
    (Evaluated /\ last.expr.k = "list" /\ last.expr.items # <<>> /\ ~RawResult.ok) =>
        LET cdr == Tail(last.expr.items)
        IN  /\ ~last.ok
            /\ last.err.message = RawResult.err.message
            /\ last.err.span =
                  IF RawResult.err.span # NoSpan THEN RawResult.err.span
                  ELSE IF List_span(cdr) # NoSpan THEN List_span(cdr)
                  ELSE Expr_span(last.expr)
            /\ last.expr \in ErrForms => last.err.span = ExpectedSpan(last.expr)

C13_Witness ==
    /\ Evaluated
    /\ last.expr = ErrFirstArgBare
    /\ RawResult.err.span = NoSpan
    /\ ~last.ok
    /\ last.err.span = Span_new(1, 11)

\* C14: evaluating a symbol gives the value lookup finds on the chain of
\* the current environment; when nothing binds it the result is the
\* undefined-symbol error with the span of the symbol itself, and no
\* environment changes.
C14_SymbolLookup ==
    /\ (Evaluated /\ last.expr.k = "sym") =>
          LET found == RootValue(last.expr.name)
          IN  /\ found # Absent => (last.ok /\ last.v = found)
              /\ found = Absent =>
                    /\ ~last.ok
                    /\ last.err.message = Undefined(last.expr.name)
                    /\ last.err.span = last.expr.span
              /\ Untouched
              /\ nextId = pre.nextId
    /\ (Evaluated /\ last.expr = CallFree) =>
          /\ RootValue("x") # Absent => (last.ok /\ last.v = RootValue("x"))
          /\ RootValue("x") = Absent =>
                /\ ~last.ok
                /\ last.err.message = Undefined("x")
                /\ last.err.span = Span_new(7, 8)
          /\ Untouched

C14_Witness ==
    /\ Evaluated
    /\ last.expr.k = "sym"
    /\ ~last.ok
    /\ last.err.span = Span_new(3, 4)

\* C15: (quote x) is x as it was written, whatever x holds; nothing is
\* looked up, nothing is invoked, no environment is created or changed.
C15_QuoteUnevaluated ==
    (/\ Evaluated
     /\ last.expr.k = "list"
     /\ Len(last.expr.items) = 2
     /\ last.expr.items[1] = intern(QUOTE)) =>
        /\ last.ok
        /\ last.v = last.expr.items[2]
        /\ last.log = <<>>
        /\ Untouched
        /\ nextId = pre.nextId

C15_Witness ==
    /\ Evaluated
    /\ last.expr = QuoteNested
    /\ last.ok
    /\ last.v = QuoteNested.items[2]
    /\ RootValue("f") # Absent

\* C16 (as claimed): the quasiquoted list with an unquote is (1 2 3), the
\* one with an unquote-splicing is (1 2 3 4).
C16_QuasiquoteSplices ==
    /\ (Evaluated /\ last.expr = QuasiUnquote) =>
          (last.ok /\ Unspan(last.v) = Li(<<Nu(1), Nu(2), Nu(3)>>))
    /\ (Evaluated /\ last.expr = QuasiSplice) =>
          (last.ok /\ Unspan(last.v) = Li(<<Nu(1), Nu(2), Nu(3), Nu(4)>>))

\* The value of an atom in the root environment the evaluation started
\* from (Absent for an unbound symbol)
AtomValue(a) == IF a.k = "sym" THEN RootValue(a.name) ELSE a

SymNames(atoms) ==
    LET syms == SelectSeq(atoms, LAMBDA a : a.k = "sym")
    IN  [i \in DOMAIN syms |-> syms[i].name]

LookupNames(log) == [i \in DOMAIN LookupEvents(log) |-> LookupEvents(log)[i].name]

\* The clauses of a cond whose condition is the first to hold (one clause
\* or none)
FirstTruthy(clauses) ==
    {k \in DOMAIN clauses :
        /\ AtomValue(clauses[k].items[1]) # Absent
        /\ is_truthy(AtomValue(clauses[k].items[1]))
        /\ \A j \in 1 .. (k - 1) :
              /\ AtomValue(clauses[j].items[1]) # Absent
              /\ ~is_truthy(AtomValue(clauses[j].items[1]))}

\* C17: cond evaluates the conditions in order up to the first one that is
\* not Nil and gives the value of the body of that clause; nothing after
\* the condition and the body of that clause is evaluated; without a body
\* the selected clause is a syntax error; when every condition is Nil the
\* result is Nil.
C17_CondFirstTruthy ==
    (Evaluated /\ last.expr \in CondForms) =>
        LET clauses == Tail(last.expr.items)
        IN  /\ \A k \in FirstTruthy(clauses) :
                  LET cl == clauses[k].items
                      conds == [j \in 1 .. k |-> clauses[j].items[1]]
                  IN  IF Len(cl) >= 2
                      THEN /\ AtomValue(cl[2]) # Absent =>
                                 (last.ok /\ last.v = AtomValue(cl[2]))
                           /\ AtomValue(cl[2]) = Absent =>
                                 (~last.ok /\ last.err.message = Undefined(cl[2].name))
                           /\ LookupNames(last.log)
                                 = <<"cond">> \o SymNames(conds \o <<cl[2]>>)
                      ELSE /\ ~last.ok
                           /\ last.err.message.fmt = "Ill-formed syntax: {}"
                           /\ LookupNames(last.log) = <<"cond">> \o SymNames(conds)
            /\ (\A k \in DOMAIN clauses :
                    /\ AtomValue(clauses[k].items[1]) # Absent
                    /\ ~is_truthy(AtomValue(clauses[k].items[1])))
                  => (last.ok /\ last.v = NIL)
            /\ Untouched

C17_Witness ==
    /\ Evaluated
    /\ last.expr = CondSecond
    /\ FirstTruthy(Tail(CondSecond.items)) = {2}
    /\ RootValue("z") = Absent
    /\ last.ok
    /\ last.v = Nu(2)

\* The environments derived during the last evaluation, in order
Derived == SelectSeq(last.log, LAMBDA ev : ev.ev = "derive")

\* C18: a closure call evaluates the arguments in the scope of the caller
\* and binds them in a new scope under the captured environment: a free
\* variable of the body is the captured environment's, not the caller's,
\* and the formal arguments of a call are bound nowhere else.
C18_ClosureScope ==
    /\ (Evaluated /\ last.expr = CallF /\ RootValue("f") # Absent /\ RootValue("x") # Absent)
          => (last.ok /\ last.v = Nu(1 + RootValue("x").n))
    /\ (/\ Evaluated
        /\ last.expr = CallLambda
        /\ RootValue("f") # Absent
        /\ RootValue("x") # Absent)
          => (last.ok /\ last.v = Nu(5 + RootValue("x").n))
    /\ (Evaluated /\ last.expr \in LoopCalls /\ RootValue("loop") # Absent)
          => (last.ok /\ last.v = Nu(last.expr.items[3].n))
    /\ (Evaluated /\ last.expr \in ({CallF, CallLambda, CallFree} \cup LoopCalls)) =>
          /\ \A i \in DOMAIN Derived : base[Derived[i].env] = Root
          /\ Untouched

C18_Witness ==
    /\ Evaluated
    /\ last.expr = CallLambda
    /\ last.ok
    /\ last.v = Nu(6)
    /\ Len(Derived) = 2

\* The position of the expansion in the log of the last evaluation
Expansions == {i \in DOMAIN last.log : last.log[i].ev = "expand"}

\* C19: a macro call binds the argument expressions as they are written in
\* a new scope, evaluates the body there, and evaluates what the body gave
\* once, in the environment of the caller; that value is the result.
C19_MacroExpandThenEval ==
    (Evaluated /\ last.expr \in {CallM, CallMQ, CallMA} /\ RootValue("m") # Absent) =>
        /\ Cardinality(Expansions) = 1
        /\ \A p \in Expansions :
              /\ last.log[p].env = Root
              /\ \A i \in DOMAIN last.log :
                    last.log[i].ev = "lookup" =>
                        IF i < p
                        THEN \/ last.log[i].name = "m" /\ last.log[i].env = Root
                             \/ last.log[i].name = "a" /\ last.log[i].env # Root
                        ELSE last.log[i].env = Root
        /\ (last.expr = CallM /\ RootValue("x") # Absent) =>
              (last.ok /\ last.v = RootValue("x"))
        /\ (last.expr = CallM /\ RootValue("x") = Absent) =>
              (~last.ok /\ last.err.message = Undefined("x"))
        /\ last.expr = CallMQ => (last.ok /\ last.v = Sy("x"))
        /\ last.expr = CallMA => (~last.ok /\ last.err.message = Undefined("a"))
        /\ Untouched

C19_Witness ==
    /\ Evaluated
    /\ last.expr = CallMQ
    /\ RootValue("m") # Absent
    /\ RootValue("x") # Absent
    /\ last.ok
    /\ last.v = Sy("x")

\* The argument list of the expression evaluated last: the list whose span
\* the evaluator asks for
ArgList == Tail(last.expr.items)

\* C20 (as claimed): the span of a non-empty list runs from the start of
\* its first element to the end of its last element, and is None when any
\* element has no span (and for the empty list).
C20_SpanNoneIfAnyMissing ==
    (Evaluated /\ last.expr.k = "list" /\ last.expr.items # <<>>) =>
        List_span(ArgList) =
            IF ArgList = <<>> \/ \E i \in DOMAIN ArgList : Expr_span(ArgList[i]) = NoSpan
            THEN NoSpan
            ELSE Span_new(Expr_span(ArgList[1]).begin, Expr_span(ArgList[Len(ArgList)]).end)

\* C20 (amended): the span of a non-empty list runs from the start of its
\* first element to the end of its last element, and is None when the
\* first or the last element has no span (and for the empty list); the
\* elements in between are not looked at.
C20_SpanFirstToLast ==
    (Evaluated /\ last.expr.k = "list" /\ last.expr.items # <<>>) =>
        /\ List_span(ArgList) =
              IF \/ ArgList = <<>>
                 \/ Expr_span(ArgList[1]) = NoSpan
                 \/ Expr_span(ArgList[Len(ArgList)]) = NoSpan
              THEN NoSpan
              ELSE Span_new(Expr_span(ArgList[1]).begin,
                            Expr_span(ArgList[Len(ArgList)]).end)
        /\ last.expr \in {ErrAllArgs, ErrMiddleArgBare} => last.err.span = Span_new(5, 10)
        /\ last.expr \in {ErrFirstArgBare, ErrLastArgBare} => last.err.span = Span_new(1, 11)

C20_Witness ==
    /\ Evaluated
    /\ last.expr = ErrMiddleArgBare
    /\ List_span(ArgList) = Span_new(5, 10)
    /\ last.err.span = Span_new(5, 10)

\* ------------------------------------------------- primitive properties
\* C21: eq and cons evaluate their operands left to right; when an operand
\* fails the call fails with the error of the first operand that does,
\* no later operand is evaluated, and no environment changes.
C21_FirstOperandError ==
    (Evaluated /\ last.expr \in OperandForms) =>
        LET p == last.expr.items[1].name
            l == last.expr.items[2].name
            r == last.expr.items[3].name
        IN  /\ RootValue(l) = Absent =>
                  /\ ~last.ok
                  /\ last.err.message = Undefined(l)
                  /\ LookupNames(last.log) = <<p, l>>
            /\ RootValue(l) # Absent => LookupNames(last.log) = <<p, l, r>>
            /\ (RootValue(l) # Absent /\ RootValue(r) = Absent) =>
                  /\ ~last.ok
                  /\ last.err.message = Undefined(r)
            /\ Untouched

C21_Witness ==
    /\ Evaluated
    /\ last.expr = Li(<<Sy("cons"), Sy("z"), Sy("x")>>)
    /\ RootValue("x") # Absent
    /\ ~last.ok
    /\ last.err.message = Undefined("z")
    /\ LookupNames(last.log) = <<"cons", "z">>

\* C29: (define name expr) binds name, in the current environment, to the
\* value of expr and returns NIL; when expr fails the error is returned
\* and the binding of name is neither made nor changed.
C29_DefineAfterEval ==
    /\ (Evaluated /\ last.expr = DefineUnbound) =>
          /\ ~last.ok
          /\ last.err.message = Undefined("z")
          /\ Untouched
    /\ (Evaluated /\ last.expr = DefineArity) =>
          /\ ~last.ok
          /\ last.err.message = get_exact_2_args("eq", <<Nu(1)>>).message
          /\ Untouched
    /\ (Evaluated /\ last.expr = DefineX) =>
          /\ last.ok
          /\ last.v = NIL
          /\ vars[Root] = [pre.vars[Root] EXCEPT !["x"] = Nu(1)]

C29_Witness ==
    /\ Evaluated
    /\ last.expr = DefineUnbound
    /\ RootValue("x") = Nu(2)
    /\ ~last.ok
    /\ vars[Root]["x"] = Nu(2)

\* What set! of x to 2 leaves in the root environment: the binding of x is
\* overwritten when there is one, and nothing changes when there is none
RootAfterSet ==
    IF RootValue("x") = Absent
    THEN pre.vars[Root]
    ELSE [pre.vars[Root] EXCEPT !["x"] = Nu(2)]

\* C30: set! changes the nearest binding of the name and no other; when
\* nothing binds the name it changes no environment, makes no binding and
\* still returns NIL.
C30_SetNeverCreates ==
    /\ (Evaluated /\ last.expr \in {SetRoot, SetOuter}) =>
          /\ last.ok
          /\ last.v = NIL
          /\ vars[Root] = RootAfterSet
    /\ (Evaluated /\ last.expr = SetLocal) =>
          /\ last.ok
          /\ last.v = Nu(2)
          /\ Untouched

C30_Witness ==
    /\ Evaluated
    /\ last.expr = SetOuter
    /\ RootValue("x") = Absent
    /\ last.ok
    /\ last.v = NIL
    /\ vars[Root]["x"] = Absent

\* ------------------------------------------------- trampoline properties
\* The number of invocations in progress after the first k events of a
\* log that starts outside every procedure
RECURSIVE DepthAt(_, _)
DepthAt(log, k) ==
    IF k = 0
    THEN 0
    ELSE DepthAt(log, k - 1)
             + (CASE log[k].ev = "invoke" -> 1
                  [] log[k].ev = "return" -> -1
                  [] OTHER -> 0)

MaxOf(S) == CHOOSE m \in S : \A n \in S : n <= m

\* The last expression is a call that eval_internal hands to eval_s_expr (a
\* non-empty list whose head is neither quote nor quasiquote) and its head
\* evaluates to a procedure
CallSite ==
    /\ Evaluated
    /\ last.expr.k = "list"
    /\ last.expr.items # <<>>
    /\ ~(Head(last.expr.items).k = "sym"
            /\ Head(last.expr.items).name \in {QUOTE, QUASIQUOTE})
    /\ LET head == eval(PreState, Head(last.expr.items), Root)
       IN  head.ok /\ head.v.k = "proc"

\* The state before the last evaluation, seen from inside a procedure
InProc == [PreState EXCEPT !.call_depth = 1]

\* The events of a log that are no returns
Progress(log) == SelectSeq(log, LAMBDA ev : ev.ev # "return")

\* C22: for a call whose head is a procedure, eval_s_expr hands back the
\* TailCall of that procedure, the arguments and the context, without
\* invoking, exactly when the call is in tail position and the call depth
\* is positive; otherwise it invokes, and every TailCall that comes back
\* is invoked next with the procedure and the context the TailCall names,
\* until the result is no TailCall.
C22_TailCallDeferral ==
    CallSite =>
        LET items == last.expr.items
            head == eval(PreState, Head(items), Root)
            deferred == eval_s_expr(InProc, items, Root, TRUE)
            top == eval_s_expr(PreState, items, Root, TRUE)
            nontail == eval_s_expr(InProc, items, Root, FALSE)
            steps == Progress(last.log)
        IN  /\ deferred.ok
            /\ deferred.v = TailCall(head.v.proc, Tail(items), Root)
            /\ deferred.s.log = Append(head.s.log, Event("tailcall", head.v.proc.name, Root))
            /\ deferred.s.vars = head.s.vars
            /\ ~(top.ok /\ top.v.k = "tailcall")
            /\ top.ok = last.ok /\ top.v = last.v /\ top.s.log = last.log
            /\ ~(nontail.ok /\ nontail.v.k = "tailcall")
            /\ nontail.ok = last.ok /\ nontail.v = last.v
            /\ \A i \in DOMAIN last.log :
                  last.log[i].ev = "tailcall" => DepthAt(last.log, i) > 0
            /\ \A i \in DOMAIN steps :
                  steps[i].ev = "tailcall" =>
                      /\ i < Len(steps)
                      /\ steps[i + 1] = Event("invoke", steps[i].name, steps[i].env)

C22_Witness ==
    /\ CallSite
    /\ last.expr = CallLambda
    /\ last.ok
    /\ \E i \in DOMAIN last.log :
          /\ last.log[i].ev = "tailcall"
          /\ last.log[i].env # Root
          /\ last.log[i].name = "+"

Trampolined == eval(PreState, last.expr, Root)

\* The last evaluation with every call invoked at its call site: started
\* so far below depth 0 that is_in_proc never holds, eval_s_expr defers
\* nothing
Immediate ==
    eval([PreState EXCEPT !.call_depth = -(Len(last.log) + 1)], last.expr, Root)

\* The invocations of a log, with procedure and context, in order
Invocations(log) == SelectSeq(log, LAMBDA ev : ev.ev = "invoke")

StaleMarked == {e \in alive : is_reachable[e] /\ e \notin Reachable(vars, base)}

\* C24 (as claimed): a mark does not outlive the pass that set it: an
\* environment that an earlier pass reached and that is unreachable now is
\* unmarked after the next pass, is among those the next
\* count_unreachable_envs counts, and is cleared and dropped from the
\* registry by the next collect_garbage.
C24_MarksDoNotPersist ==
    [][/\ last'.op \in {"collect_garbage", "count_unreachable_envs"} =>
              \A e \in StaleMarked : e \in alive' => ~is_reachable'[e]
       /\ last'.op = "count_unreachable_envs" => last'.ret >= Cardinality(StaleMarked)
       /\ last'.op = "collect_garbage" =>
              \A e \in StaleMarked : vars'[e] = EmptyMap /\ e \notin Range(all_envs')
      ]_allvars

\* Env::gc_mark, counting its calls
RECURSIVE gc_mark_count(_, _, _, _)
RECURSIVE gc_mark_count_all(_, _, _, _)
gc_mark_count(m, vs, bs, e) ==
    IF m.fl[e]
    THEN [m EXCEPT !.visits = @ + 1]
    ELSE LET m1 == [fl |-> [m.fl EXCEPT ![e] = TRUE], visits |-> m.visits + 1]
             m2 == IF bs[e] # NoEnv THEN gc_mark_count(m1, vs, bs, bs[e]) ELSE m1
         IN  gc_mark_count_all(m2, vs, bs, Captured(vs, e))

gc_mark_count_all(m, vs, bs, todo) ==
    IF todo = {}
    THEN m
    ELSE LET c == CHOOSE c \in todo : \A d \in todo : c <= d
         IN  gc_mark_count_all(gc_mark_count(m, vs, bs, c), vs, bs, todo \ {c})

\* The edges the mark phase can follow: base links and captured
\* environments
Edges(vs, bs) ==
    {<<e, c>> \in Ids \X Ids : bs[e] = c \/ c \in Captured(vs, e)}

\* An environment on a cycle of captures and base links
RECURSIVE Descendants(_, _, _)
Descendants(R, vs, bs) ==
    LET N == R \cup {c \in Ids : \E e \in R : <<e, c>> \in Edges(vs, bs)}
    IN  IF N = R THEN R ELSE Descendants(N, vs, bs)

OnCycle(vs, bs) ==
    {e \in Ids : e \in Descendants({c \in Ids : <<e, c>> \in Edges(vs, bs)}, vs, bs)}

C26_RegisteredUntilSwept ==
    /\ Root \in Range(all_envs)
    /\ [][/\ Root \in Range(all_envs')
          /\ \A e \in alive' \ alive : e \in Range(all_envs')
          /\ \A e \in (alive \cap alive' \cap Range(all_envs)) \ Range(all_envs') :
                /\ last'.op = "collect_garbage"
                /\ ~is_reachable'[e]
                /\ vars'[e] = EmptyMap
         ]_allvars

C26_Witness ==
    /\ last.op = "collect_garbage"
    /\ \E e \in alive \ {Root} : e \in Range(all_envs)
    /\ \E e \in alive : e \notin Range(all_envs) /\ e \in Range(pre.all_envs)

\* ------------------------------------------------- teardown properties
\* The registry entries that upgrade
Upgradeable == {i \in DOMAIN all_envs : all_envs[i] \in alive}

\* C27 (as claimed): when the Evaluator is dropped and has cleared every
\* alive registered environment, exactly one registry entry still upgrades,
\* the root, whatever value the host still holds.
C27_DropLeavesOnlyRoot ==
    last.op = "drop" =>
        /\ Cardinality(Upgradeable) = 1
        /\ \A i \in Upgradeable : all_envs[i] = Root

====
